---- MODULE Spec2Model ----
(***************************************************************************)
(* Real-time connection registry and event relay of the proctored-exam     *)
(* server: ConnectionManager (services/ConnectionManager.js), the Socket.io*)
(* setup with the /exam and /admin namespaces (socket.js) and the exam     *)
(* event handlers (socket/examHandler.js, socket/mobileHandler.js).         *)
(* Spec is the relay of the /exam and /admin namespaces, SpecMobile the     *)
(* /exam namespace with the session-pairing events, SpecInline the relay   *)
(* whose handlers are written inline in socket.js.                         *)
(* SpecExams is the exam routes (routes/exams.js) over the stored Exam and  *)
(* Submission documents; a handler step there runs from one await to the   *)
(* next.                                                                   *)
(*                                                                         *)
(* Every handler runs to completion on the single event-loop thread, so    *)
(* each handler is one action.  Timestamps (Date.now(), connectedAt) are   *)
(* values no handler reads back or branches on; they are left out.         *)
(***************************************************************************)
EXTENDS Integers, Sequences, FiniteSets, TLC

(* ------------------------------ bounds -------------------------------- *)
\* socket ids that may connect to the /exam namespace
NumExamConns == 2

ExamConns == 1..NumExamConns
\* the socket id that may connect to the /admin namespace
AdminConns == {NumExamConns + 1}
Conns == ExamConns \cup AdminConns

Exams == {"EX1", "EX2"}
Devices == {"laptop", "mobile"}
\* user ids a client may put in a payload
UserIds == {"student-1", "admin-1"}

\* JavaScript undefined (a field absent from a payload) and null
Undefined == "undefined"
Null == "null"

\* handshake credentials: absent, malformed, expired, or a token signed for a user
NoToken == "no-token"
BadToken == "bad-token"
ExpiredToken == "expired-token"
ValidTokens == {"jwt-student-1", "jwt-admin-1"}
Tokens == {NoToken, BadToken, ExpiredToken} \cup ValidTokens

NoUser == [userId |-> Undefined, role |-> Undefined]

\* jwt.verify: the claims a valid token was signed with
decoded(token) ==
    CASE token = "jwt-student-1" -> [userId |-> "student-1", role |-> "student"]
      [] token = "jwt-admin-1" -> [userId |-> "admin-1", role |-> "admin"]
      [] OTHER -> NoUser

\* JavaScript truthiness of an exam id / session id value
Falsy(v) == v \in {Undefined, Null, ""}

VARIABLES
    status,       \* per socket id: "idle" (never connected), "open", "closed"
    user,         \* socket.user, attached by the auth middleware
    rooms,        \* per socket id: the rooms the socket has joined
    connections,  \* ConnectionManager._connections, in insertion order
    sent,         \* what the last handler emitted: {[to, ev, data]}
    last,         \* the last event handled, with what its removeUser call returned
    exam,         \* the Exam document stored in the database
    submissions,  \* the Submission collection, in insertion order
    reqs          \* the HTTP requests of the exam routes: each handler's position

relayVars == <<status, user, rooms, connections, sent, last>>
httpVars == <<exam, submissions, reqs>>
vars == <<status, user, rooms, connections, sent, last, exam, submissions, reqs>>

(* ------------------- Map (insertion-ordered) -------------------------- *)
\* _connections is a Map socketId -> record; a sequence of records keeps its
\* iteration order.
MapKeys(m) == {m[i].socketId : i \in 1..Len(m)}
MapHas(m, k) == \E i \in 1..Len(m) : m[i].socketId = k
MapIndex(m, k) == CHOOSE i \in 1..Len(m) : m[i].socketId = k
MapGet(m, k) == m[MapIndex(m, k)]

\* a Map.set that never finds the existing key
MapSetAppend(m, k, v) == Append(m, v)

\* Map.prototype.set: replaces the value of an existing key in place, else appends
MapSet(m, k, v) ==
    IF MapHas(m, k)
    THEN [i \in 1..Len(m) |-> IF m[i].socketId = k THEN v ELSE m[i]]
    ELSE Append(m, v)

\* Map.prototype.delete
MapDelete(m, k) == SelectSeq(m, LAMBDA u : u.socketId # k)

(* ------------------------ ConnectionManager --------------------------- *)
\* an addUser that does not store the exam id it was given
addUserNoExam(m, socketId, p) ==
    MapSet(m, socketId,
           [socketId |-> socketId, userId |-> p.userId, role |-> p.role,
            examId |-> Null,
            device |-> IF p.device = Undefined THEN "laptop" ELSE p.device])

\* an addUser that keeps the record an id already has
addUserOnce(m, socketId, p) ==
    IF MapHas(m, socketId) THEN m
    ELSE MapSet(m, socketId,
                [socketId |-> socketId,
                 userId |-> p.userId,
                 role |-> p.role,
                 examId |-> IF p.examId = Undefined THEN Null ELSE p.examId,
                 device |-> IF p.device = Undefined THEN "laptop" ELSE p.device])

\* addUser(socketId, { userId, role, examId = null, device = 'laptop' })
addUser(m, socketId, p) ==
    MapSet(m, socketId,
           [socketId |-> socketId,
            userId |-> p.userId,
            role |-> p.role,
            examId |-> IF p.examId = Undefined THEN Null ELSE p.examId,
            device |-> IF p.device = Undefined THEN "laptop" ELSE p.device])

\* a removeUser that returns the record and forgets to delete it
removeUserKeep(m, socketId) ==
    [conns |-> m,
     user |-> IF MapHas(m, socketId) THEN <<MapGet(m, socketId)>> ELSE <<>>]

\* removeUser(socketId): the map afterwards and the returned record (<<>> is null)
removeUser(m, socketId) ==
    IF MapHas(m, socketId)
    THEN [conns |-> MapDelete(m, socketId), user |-> <<MapGet(m, socketId)>>]
    ELSE [conns |-> m, user |-> <<>>]

\* getUser(socketId)
getUser(m, socketId) == IF MapHas(m, socketId) THEN <<MapGet(m, socketId)>> ELSE <<>>

\* a getUsersByExam that ignores the exam id
getUsersByExamAll(m, examId) == m

\* getUsersByExam(examId)
getUsersByExam(m, examId) == SelectSeq(m, LAMBDA u : u.examId = examId)

\* getUsersByRole(role)
getUsersByRole(m, role) == SelectSeq(m, LAMBDA u : u.role = role)

\* getConnectedCount()
getConnectedCount(m) == Len(m)

\* the loop of getStats over _connections.values(), from position i with the
\* counters students, admins and the Set exams
RECURSIVE statsLoop(_, _, _, _, _)
statsLoop(m, i, students, admins, exams) ==
    IF i > Len(m)
    THEN [total |-> Len(m), students |-> students, admins |-> admins,
          activeExams |-> Cardinality(exams)]
    ELSE statsLoop(m, i + 1,
                   IF m[i].role = "student" THEN students + 1 ELSE students,
                   IF m[i].role = "admin" THEN admins + 1 ELSE admins,
                   IF Falsy(m[i].examId) THEN exams ELSE exams \cup {m[i].examId})

\* a getStats that counts every record with an exam instead of the distinct exams
getStatsPerRecord(m) ==
    [total |-> Len(m),
     students |-> Len(SelectSeq(m, LAMBDA u : u.role = "student")),
     admins |-> Len(SelectSeq(m, LAMBDA u : u.role = "admin")),
     activeExams |-> Len(SelectSeq(m, LAMBDA u : ~Falsy(u.examId)))]

\* getStats()
getStats(m) == statsLoop(m, 1, 0, 0, {})

(* ----------------------------- transport ------------------------------ *)
roomOfExam(examId) == "exam:" \o examId

\* the sockets of the /exam namespace that are in `room` under the membership rms
inRoom(rms, room) == {d \in ExamConns : room \in rms[d]}

\* a broadcast that does not except the sender
socketToAll(rms, c, room) == inRoom(rms, room)

\* socket.to(room): every socket of the room except the sender
socketTo(rms, c, room) == inRoom(rms, room) \ {c}

\* one emitted event per recipient
emit(targets, ev, data) == {[to |-> d, ev |-> ev, data |-> data] : d \in targets}

\* the users array of EXAM_STATE: roomUsers.map(u => ({userId, device, ...}))
rosterOf(roomUsers) ==
    [i \in 1..Len(roomUsers) |->
        [userId |-> roomUsers[i].userId, device |-> roomUsers[i].device]]

\* socketAuthMiddleware(socket, next)
socketAuthMiddleware(token) ==
    IF token = NoToken
    THEN [ok |-> FALSE, user |-> NoUser, err |-> "Authentication required"]
    ELSE IF token \in ValidTokens
    THEN [ok |-> TRUE, user |-> decoded(token), err |-> ""]
    ELSE IF token = ExpiredToken
    THEN [ok |-> FALSE, user |-> NoUser, err |-> "Token expired"]
    ELSE [ok |-> FALSE, user |-> NoUser, err |-> "Invalid token"]

NoEvent == [ev |-> "none", conn |-> 0]

(* ------------------- exam routes: the stored documents ---------------- *)
\* HTTP requests of the exam routes that may be in flight together
NumReqs == 2
ReqIds == 1..NumReqs

\* the seats an exam may be created or edited with
MaxSeats == 2

Students == {"s1", "s2"}
Statuses == {"draft", "scheduled", "live", "completed"}
\* a student's answer to the exam's question
Answers == {"right", "wrong"}

\* an Exam as POST /api/exams stores it: status defaults to draft
newExam == [status |-> "draft", maxStudents |-> 1, participants |-> <<>>]

\* a request slot no request has used yet
IdleReq == [pc |-> "idle", kind |-> "none", user |-> "none", doc |-> newExam,
            seats |-> 0, status |-> "none", answer |-> "none", res |-> 0]

\* participant lists without duplicates of at most n students
rosters(n) ==
    {<<>>} \cup {<<s>> : s \in Students}
    \cup (IF n >= 2 THEN {p \in Students \X Students : p[1] # p[2]} ELSE {})

\* the Exam documents sequential requests lead to
ExamDocs ==
    {[status |-> st, maxStudents |-> n, participants |-> p] :
        st \in Statuses, n \in 1..MaxSeats, p \in rosters(MaxSeats)}

InitRelay ==
    /\ status = [c \in Conns |-> "idle"]
    /\ user = [c \in Conns |-> NoUser]
    /\ rooms = [c \in Conns |-> {}]
    /\ connections = <<>>
    /\ sent = {}
    /\ last = NoEvent

Init ==
    /\ InitRelay
    /\ exam = newExam
    /\ submissions = <<>>
    /\ reqs = [r \in ReqIds |-> IdleReq]

(* --------------------------- /exam namespace -------------------------- *)
\* a transport that hands a closed socket id to a new connection
ExamConnectAgain(c, token) ==
    /\ status[c] # "open"
    /\ LET auth == socketAuthMiddleware(token) IN
       IF auth.ok
       THEN /\ status' = [status EXCEPT ![c] = "open"]
            /\ user' = [user EXCEPT ![c] = auth.user]
            /\ sent' = {}
            /\ last' = [ev |-> "connection", conn |-> c]
       ELSE /\ status' = [status EXCEPT ![c] = "closed"]
            /\ user' = user
            /\ sent' = emit({c}, "connect_error", [message |-> auth.err])
            /\ last' = [ev |-> "connect_error", conn |-> c]
    /\ UNCHANGED <<rooms, connections>>
    /\ UNCHANGED httpVars

\* examNamespace.use(socketAuthMiddleware), then the 'connection' handler
ExamConnect(c, token) ==
    /\ status[c] = "idle"
    /\ LET auth == socketAuthMiddleware(token) IN
       IF auth.ok
       THEN /\ status' = [status EXCEPT ![c] = "open"]
            /\ user' = [user EXCEPT ![c] = auth.user]
            /\ sent' = {}
            /\ last' = [ev |-> "connection", conn |-> c]
       ELSE /\ status' = [status EXCEPT ![c] = "closed"]
            /\ user' = user
            /\ sent' = emit({c}, "connect_error", [message |-> auth.err])
            /\ last' = [ev |-> "connect_error", conn |-> c]
    /\ UNCHANGED <<rooms, connections>>
    /\ UNCHANGED httpVars

\* a JOIN_EXAM handler without the examId validation
onJoinExamUnchecked(c, userId, examId, device) ==
    LET uid == user[c].userId
        dev == IF device = Undefined THEN "laptop" ELSE device
        roomName == roomOfExam(examId)
        conns == addUser(connections, c,
                         [userId |-> uid, role |-> user[c].role,
                          examId |-> examId, device |-> dev])
        joined == [rooms EXCEPT ![c] = @ \cup {roomName}]
        roomUsers == getUsersByExam(conns, examId)
    IN [connections |-> conns,
        rooms |-> joined,
        sent |-> emit({c}, "exam:state",
                      [examId |-> examId, users |-> rosterOf(roomUsers),
                       message |-> "Joined exam"])
                 \cup emit(socketTo(joined, c, roomName), "exam:user_joined",
                           [userId |-> uid, device |-> dev, examId |-> examId]),
        last |-> [ev |-> "exam:join", conn |-> c, examId |-> examId,
                  device |-> dev, ok |-> TRUE]]

\* a JOIN_EXAM handler that reads the roster before it registers the joiner
onJoinExamRosterFirst(c, userId, examId, device) ==
    IF Falsy(examId)
    THEN [connections |-> connections,
          rooms |-> rooms,
          sent |-> emit({c}, "error", [message |-> "examId is required"]),
          last |-> [ev |-> "exam:join", conn |-> c, examId |-> examId, ok |-> FALSE]]
    ELSE LET uid == user[c].userId
             dev == IF device = Undefined THEN "laptop" ELSE device
             roomName == roomOfExam(examId)
             roomUsers == getUsersByExam(connections, examId)
             conns == addUser(connections, c,
                              [userId |-> uid, role |-> user[c].role,
                               examId |-> examId, device |-> dev])
             joined == [rooms EXCEPT ![c] = @ \cup {roomName}]
         IN [connections |-> conns,
             rooms |-> joined,
             sent |-> emit({c}, "exam:state",
                           [examId |-> examId, users |-> rosterOf(roomUsers),
                            message |-> "Joined exam"])
                      \cup emit(socketTo(joined, c, roomName), "exam:user_joined",
                                [userId |-> uid, device |-> dev, examId |-> examId]),
             last |-> [ev |-> "exam:join", conn |-> c, examId |-> examId,
                       device |-> dev, ok |-> TRUE]]

\* the body of the JOIN_EXAM handler; the payload's userId is not destructured
onJoinExam(c, userId, examId, device) ==
    IF Falsy(examId)
    THEN [connections |-> connections,
          rooms |-> rooms,
          sent |-> emit({c}, "error", [message |-> "examId is required"]),
          last |-> [ev |-> "exam:join", conn |-> c, examId |-> examId, ok |-> FALSE]]
    ELSE LET uid == user[c].userId
             dev == IF device = Undefined THEN "laptop" ELSE device
             roomName == roomOfExam(examId)
             conns == addUser(connections, c,
                              [userId |-> uid, role |-> user[c].role,
                               examId |-> examId, device |-> dev])
             joined == [rooms EXCEPT ![c] = @ \cup {roomName}]
             roomUsers == getUsersByExam(conns, examId)
         IN [connections |-> conns,
             rooms |-> joined,
             sent |-> emit({c}, "exam:state",
                           [examId |-> examId, users |-> rosterOf(roomUsers),
                            message |-> "Joined exam"])
                      \cup emit(socketTo(joined, c, roomName), "exam:user_joined",
                                [userId |-> uid, device |-> dev, examId |-> examId]),
             last |-> [ev |-> "exam:join", conn |-> c, examId |-> examId,
                       device |-> dev, ok |-> TRUE]]

\* socket.on(JOIN_EXAM, ({ examId, device = 'laptop' }) => ...)
JoinExam(c, userId, examId, device) ==
    /\ status[c] = "open"
    /\ LET e == onJoinExam(c, userId, examId, device) IN
       /\ connections' = e.connections
       /\ rooms' = e.rooms
       /\ sent' = e.sent
       /\ last' = e.last
    /\ UNCHANGED <<status, user>>
    /\ UNCHANGED httpVars

\* a leave-exam handler that notifies the whole room, the leaver included
onLeaveExamEcho(c) ==
    LET r == removeUser(connections, c) IN
    IF r.user # <<>>
    THEN LET u == r.user[1]
             roomName == roomOfExam(u.examId)
         IN [connections |-> r.conns,
             rooms |-> [rooms EXCEPT ![c] = @ \ {roomName}],
             sent |-> emit(inRoom(rooms, roomName), "exam:user_left",
                           [userId |-> u.userId, device |-> u.device,
                            examId |-> u.examId]),
             last |-> [ev |-> "exam:leave", conn |-> c, user |-> r.user]]
    ELSE [connections |-> r.conns,
          rooms |-> rooms,
          sent |-> {},
          last |-> [ev |-> "exam:leave", conn |-> c, user |-> r.user]]

\* a leave-exam handler that takes the socket out of every room
onLeaveExamAllRooms(c) ==
    LET r == removeUser(connections, c) IN
    IF r.user # <<>>
    THEN LET u == r.user[1]
             roomName == roomOfExam(u.examId)
         IN [connections |-> r.conns,
             rooms |-> [rooms EXCEPT ![c] = {}],
             sent |-> emit(socketTo(rooms, c, roomName), "exam:user_left",
                           [userId |-> u.userId, device |-> u.device,
                            examId |-> u.examId]),
             last |-> [ev |-> "exam:leave", conn |-> c, user |-> r.user]]
    ELSE [connections |-> r.conns,
          rooms |-> rooms,
          sent |-> {},
          last |-> [ev |-> "exam:leave", conn |-> c, user |-> r.user]]

\* the body of the LEAVE_EXAM handler
onLeaveExam(c) ==
    LET r == removeUser(connections, c) IN
    IF r.user # <<>>
    THEN LET u == r.user[1]
             roomName == roomOfExam(u.examId)
         IN [connections |-> r.conns,
             rooms |-> [rooms EXCEPT ![c] = @ \ {roomName}],
             sent |-> emit(socketTo(rooms, c, roomName), "exam:user_left",
                           [userId |-> u.userId, device |-> u.device,
                            examId |-> u.examId]),
             last |-> [ev |-> "exam:leave", conn |-> c, user |-> r.user]]
    ELSE [connections |-> r.conns,
          rooms |-> rooms,
          sent |-> {},
          last |-> [ev |-> "exam:leave", conn |-> c, user |-> r.user]]

\* a leave-exam handler that removes the record and notifies nobody
LeaveExamQuiet(c) ==
    /\ status[c] = "open"
    /\ c \in ExamConns
    /\ LET r == removeUser(connections, c) IN
       /\ connections' = r.conns
       /\ last' = [ev |-> "exam:leave", conn |-> c, user |-> r.user]
       /\ sent' = {}
       /\ rooms' = IF r.user # <<>>
                   THEN [rooms EXCEPT ![c] = @ \ {roomOfExam(r.user[1].examId)}]
                   ELSE rooms
    /\ UNCHANGED <<status, user>>
    /\ UNCHANGED httpVars

\* socket.on(LEAVE_EXAM, () => ...)
LeaveExam(c) ==
    /\ status[c] = "open"
    /\ c \in ExamConns
    /\ LET e == onLeaveExam(c) IN
       /\ connections' = e.connections
       /\ rooms' = e.rooms
       /\ sent' = e.sent
       /\ last' = e.last
    /\ UNCHANGED <<status, user>>
    /\ UNCHANGED httpVars

\* a disconnect handler that announces the departure of a socket it finds no
\* record for
onExamDisconnectLoud(c) ==
    LET left == [rooms EXCEPT ![c] = {}]
        r == removeUser(connections, c)
    IN IF r.user # <<>>
       THEN LET u == r.user[1]
                roomName == roomOfExam(u.examId)
            IN [connections |-> r.conns,
                rooms |-> [left EXCEPT ![c] = @ \ {roomName}],
                sent |-> emit(socketTo(left, c, roomName), "exam:user_left",
                              [userId |-> u.userId, device |-> u.device,
                               examId |-> u.examId]),
                last |-> [ev |-> "disconnect", conn |-> c, user |-> r.user]]
       ELSE [connections |-> r.conns,
             rooms |-> left,
             sent |-> emit(ExamConns \ {c}, "exam:user_left",
                           [userId |-> user[c].userId, device |-> Undefined,
                            examId |-> Undefined]),
             last |-> [ev |-> "disconnect", conn |-> c, user |-> r.user]]

\* the body of the 'disconnect' handler of an /exam socket; the transport has
\* taken the socket out of all its rooms (left) before the handler runs
onExamDisconnect(c) ==
    LET left == [rooms EXCEPT ![c] = {}]
        r == removeUser(connections, c)
    IN IF r.user # <<>>
       THEN LET u == r.user[1]
                roomName == roomOfExam(u.examId)
            IN [connections |-> r.conns,
                rooms |-> [left EXCEPT ![c] = @ \ {roomName}],
                sent |-> emit(socketTo(left, c, roomName), "exam:user_left",
                              [userId |-> u.userId, device |-> u.device,
                               examId |-> u.examId]),
                last |-> [ev |-> "disconnect", conn |-> c, user |-> r.user]]
       ELSE [connections |-> r.conns,
             rooms |-> left,
             sent |-> {},
             last |-> [ev |-> "disconnect", conn |-> c, user |-> r.user]]

\* a disconnect handler that only logs
ExamDisconnectNoCleanup(c) ==
    /\ status[c] = "open"
    /\ c \in ExamConns
    /\ status' = [status EXCEPT ![c] = "closed"]
    /\ user' = [user EXCEPT ![c] = NoUser]
    /\ rooms' = [rooms EXCEPT ![c] = {}]
    /\ sent' = {}
    /\ last' = [ev |-> "disconnect", conn |-> c, user |-> <<>>]
    /\ UNCHANGED connections
    /\ UNCHANGED httpVars

\* socket.on('disconnect', ...) of an /exam socket
ExamDisconnect(c) ==
    /\ status[c] = "open"
    /\ c \in ExamConns
    /\ status' = [status EXCEPT ![c] = "closed"]
    /\ user' = [user EXCEPT ![c] = NoUser]
    /\ LET e == onExamDisconnect(c) IN
       /\ connections' = e.connections
       /\ rooms' = e.rooms
       /\ sent' = e.sent
       /\ last' = e.last
    /\ UNCHANGED httpVars

\* Date.now(): a timestamp no handler reads back
Now == "now"

\* an io.to that reaches every socket that is in any room
ioToAnyRoom(rms, room) == {d \in ExamConns : rms[d] # {}}

\* io.to(room) with io the /exam namespace: every socket of the room
ioTo(rms, room) == inRoom(rms, room)

\* an EXAM_START handler without the role check
onExamStartAnyRole(c, examId) ==
    [connections |-> connections,
     rooms |-> rooms,
     sent |-> emit(ioTo(rooms, roomOfExam(examId)), "exam:start", [timestamp |-> Now]),
     last |-> [ev |-> "exam:start", conn |-> c, examId |-> examId]]

\* the body of the EXAM_START handler
onExamStart(c, examId) ==
    IF user[c].role # "admin"
    THEN [connections |-> connections,
          rooms |-> rooms,
          sent |-> {},
          last |-> [ev |-> "exam:start", conn |-> c, examId |-> examId]]
    ELSE LET room == roomOfExam(examId) IN
         [connections |-> connections,
          rooms |-> rooms,
          sent |-> emit(ioTo(rooms, room), "exam:start", [timestamp |-> Now]),
          last |-> [ev |-> "exam:start", conn |-> c, examId |-> examId]]

\* the body of the EXAM_END handler
onExamEnd(c, examId) ==
    IF user[c].role # "admin"
    THEN [connections |-> connections,
          rooms |-> rooms,
          sent |-> {},
          last |-> [ev |-> "exam:end", conn |-> c, examId |-> examId]]
    ELSE LET room == roomOfExam(examId) IN
         [connections |-> connections,
          rooms |-> rooms,
          sent |-> emit(ioTo(rooms, room), "exam:end", [timestamp |-> Now]),
          last |-> [ev |-> "exam:end", conn |-> c, examId |-> examId]]

\* socket.on(EXAM_START, (examId) => ...)
ExamStart(c, examId) ==
    /\ status[c] = "open"
    /\ LET e == onExamStart(c, examId) IN
       /\ connections' = e.connections
       /\ rooms' = e.rooms
       /\ sent' = e.sent
       /\ last' = e.last
    /\ UNCHANGED <<status, user>>
    /\ UNCHANGED httpVars

\* socket.on(EXAM_END, (examId) => ...)
ExamEnd(c, examId) ==
    /\ status[c] = "open"
    /\ LET e == onExamEnd(c, examId) IN
       /\ connections' = e.connections
       /\ rooms' = e.rooms
       /\ sent' = e.sent
       /\ last' = e.last
    /\ UNCHANGED <<status, user>>
    /\ UNCHANGED httpVars

(* --------------------------- mobileHandler ---------------------------- *)
\* session ids a client may send
Sessions == {"S1", "S2"}

roomOfSession(sessionId) == "session:" \o sessionId

\* a MOBILE_JOIN handler that announces the device to the other members only
onMobileJoinOthers(c, sessionId) ==
    IF Falsy(sessionId)
    THEN [connections |-> connections, rooms |-> rooms, sent |-> {},
          last |-> [ev |-> "mobile:join", conn |-> c, sessionId |-> sessionId]]
    ELSE LET room == roomOfSession(sessionId)
             joined == [rooms EXCEPT ![c] = @ \cup {room}]
         IN [connections |-> connections,
             rooms |-> joined,
             sent |-> emit(socketTo(joined, c, room), "mobile:connected",
                           [deviceId |-> c]),
             last |-> [ev |-> "mobile:join", conn |-> c, sessionId |-> sessionId]]

\* the body of the MOBILE_JOIN handler
onMobileJoin(c, sessionId) ==
    IF Falsy(sessionId)
    THEN [connections |-> connections, rooms |-> rooms, sent |-> {},
          last |-> [ev |-> "mobile:join", conn |-> c, sessionId |-> sessionId]]
    ELSE LET room == roomOfSession(sessionId)
             joined == [rooms EXCEPT ![c] = @ \cup {room}]
         IN [connections |-> connections,
             rooms |-> joined,
             sent |-> emit(ioTo(joined, room), "mobile:connected", [deviceId |-> c]),
             last |-> [ev |-> "mobile:join", conn |-> c, sessionId |-> sessionId]]

\* socket.on(MOBILE_JOIN, (sessionId) => ...)
MobileJoin(c, sessionId) ==
    /\ status[c] = "open"
    /\ LET e == onMobileJoin(c, sessionId) IN
       /\ connections' = e.connections
       /\ rooms' = e.rooms
       /\ sent' = e.sent
       /\ last' = e.last
    /\ UNCHANGED <<status, user>>
    /\ UNCHANGED httpVars

\* the body of the 'session:join' handler
onSessionJoin(c, sessionId) ==
    IF Falsy(sessionId)
    THEN [connections |-> connections, rooms |-> rooms, sent |-> {},
          last |-> [ev |-> "session:join", conn |-> c, sessionId |-> sessionId]]
    ELSE [connections |-> connections,
          rooms |-> [rooms EXCEPT ![c] = @ \cup {roomOfSession(sessionId)}],
          sent |-> {},
          last |-> [ev |-> "session:join", conn |-> c, sessionId |-> sessionId]]

\* socket.on('session:join', (sessionId) => ...)
SessionJoin(c, sessionId) ==
    /\ status[c] = "open"
    /\ LET e == onSessionJoin(c, sessionId) IN
       /\ connections' = e.connections
       /\ rooms' = e.rooms
       /\ sent' = e.sent
       /\ last' = e.last
    /\ UNCHANGED <<status, user>>
    /\ UNCHANGED httpVars

\* what a violation-alert may report
Violations == {"phone-detected"}

roomOfMonitor(examId) == "monitor:" \o examId

\* a VIOLATION_ALERT handler that forwards to every socket of the namespace
onViolationAlertBroadcast(c, sessionId, examId, violation) ==
    [connections |-> connections,
     rooms |-> rooms,
     sent |-> emit({d \in ExamConns : status[d] = "open"}, "violation:detected",
                   [violation |-> violation, examId |-> examId]),
     last |-> [ev |-> "violation:alert", conn |-> c, sessionId |-> sessionId,
               examId |-> examId]]

\* a VIOLATION_ALERT handler that drops the alert of a sender outside the session
onViolationAlertMembersOnly(c, sessionId, examId, violation) ==
    [connections |-> connections,
     rooms |-> rooms,
     sent |-> IF roomOfSession(sessionId) \in rooms[c]
              THEN emit(ioTo(rooms, roomOfSession(sessionId)), "violation:detected",
                        [violation |-> violation, examId |-> examId])
              ELSE {},
     last |-> [ev |-> "violation:alert", conn |-> c, sessionId |-> sessionId,
               examId |-> examId]]

\* the body of the VIOLATION_ALERT handler; rest is the payload without its
\* sessionId
onViolationAlert(c, sessionId, examId, violation) ==
    LET rest == [violation |-> violation, examId |-> examId]
        room == roomOfSession(sessionId)
        toSession == emit(ioTo(rooms, room), "violation:detected", rest)
        toMonitor ==
            IF Falsy(examId) THEN {}
            ELSE emit(ioTo(rooms, roomOfMonitor(examId)), "violation:detected",
                      [sessionId |-> sessionId,
                       userId |-> IF user[c] = NoUser THEN "anonymous-mobile"
                                  ELSE user[c].userId,
                       violation |-> violation, examId |-> examId])
    IN [connections |-> connections,
        rooms |-> rooms,
        sent |-> toSession \cup toMonitor,
        last |-> [ev |-> "violation:alert", conn |-> c, sessionId |-> sessionId,
                  examId |-> examId]]

\* socket.on(VIOLATION_ALERT, (data) => ...)
ViolationAlert(c, sessionId, examId, violation) ==
    /\ status[c] = "open"
    /\ LET e == onViolationAlert(c, sessionId, examId, violation) IN
       /\ connections' = e.connections
       /\ rooms' = e.rooms
       /\ sent' = e.sent
       /\ last' = e.last
    /\ UNCHANGED <<status, user>>
    /\ UNCHANGED httpVars

(* --------------------------- /admin namespace ------------------------- *)
\* an /admin gate that admits every verified identity
onAdminConnectAnyRole(c, token) ==
    LET auth == socketAuthMiddleware(token) IN
    IF auth.ok
    THEN LET conns == addUser(connections, c,
                              [userId |-> auth.user.userId, role |-> "admin",
                               examId |-> Undefined, device |-> Undefined])
         IN [status |-> "open", user |-> auth.user, connections |-> conns,
             sent |-> emit({c}, "exam:state",
                           [stats |-> getStats(conns), message |-> "Admin connected"]),
             last |-> [ev |-> "connection", conn |-> c]]
    ELSE [status |-> "closed", user |-> user[c], connections |-> connections,
          sent |-> emit({c}, "connect_error", [message |-> auth.err]),
          last |-> [ev |-> "connect_error", conn |-> c]]

\* an /admin connection handler that takes the stats before it registers
onAdminConnectStatsFirst(c, token) ==
    LET auth == socketAuthMiddleware(token) IN
    IF auth.ok /\ auth.user.role = "admin"
    THEN LET conns == addUser(connections, c,
                              [userId |-> auth.user.userId, role |-> "admin",
                               examId |-> Undefined, device |-> Undefined])
         IN [status |-> "open", user |-> auth.user, connections |-> conns,
             sent |-> emit({c}, "exam:state",
                           [stats |-> getStats(connections),
                            message |-> "Admin connected"]),
             last |-> [ev |-> "connection", conn |-> c]]
    ELSE [status |-> "closed", user |-> user[c], connections |-> connections,
          sent |-> emit({c}, "connect_error",
                        [message |-> IF auth.ok THEN "Access denied" ELSE auth.err]),
          last |-> [ev |-> "connect_error", conn |-> c]]

\* adminNamespace.use(socketAuthMiddleware), the role check, then the body of
\* the 'connection' handler
onAdminConnect(c, token) ==
    LET auth == socketAuthMiddleware(token) IN
    IF auth.ok /\ auth.user.role = "admin"
    THEN LET conns == addUser(connections, c,
                              [userId |-> auth.user.userId, role |-> "admin",
                               examId |-> Undefined, device |-> Undefined])
         IN [status |-> "open", user |-> auth.user, connections |-> conns,
             sent |-> emit({c}, "exam:state",
                           [stats |-> getStats(conns), message |-> "Admin connected"]),
             last |-> [ev |-> "connection", conn |-> c]]
    ELSE [status |-> "closed", user |-> user[c], connections |-> connections,
          sent |-> emit({c}, "connect_error",
                        [message |-> IF auth.ok THEN "Access denied" ELSE auth.err]),
          last |-> [ev |-> "connect_error", conn |-> c]]

\* a connection attempt on the /admin namespace
AdminConnect(c, token) ==
    /\ status[c] = "idle"
    /\ LET e == onAdminConnect(c, token) IN
       /\ status' = [status EXCEPT ![c] = e.status]
       /\ user' = [user EXCEPT ![c] = e.user]
       /\ connections' = e.connections
       /\ sent' = e.sent
       /\ last' = e.last
    /\ UNCHANGED rooms
    /\ UNCHANGED httpVars

\* socket.on('disconnect', ...) of an /admin socket
AdminDisconnect(c) ==
    /\ status[c] = "open"
    /\ c \in AdminConns
    /\ LET r == removeUser(connections, c) IN
       /\ connections' = r.conns
       /\ last' = [ev |-> "disconnect", conn |-> c, user |-> r.user]
    /\ status' = [status EXCEPT ![c] = "closed"]
    /\ user' = [user EXCEPT ![c] = NoUser]
    /\ sent' = {}
    /\ UNCHANGED rooms
    /\ UNCHANGED httpVars

Next ==
    \/ \E c \in ExamConns, token \in Tokens : ExamConnect(c, token)
    \/ \E c \in ExamConns, examId \in Exams \cup {Undefined},
          device \in Devices \cup {Undefined} :
          JoinExam(c, Undefined, examId, device)
    \/ \E c \in ExamConns : LeaveExam(c)
    \/ \E c \in ExamConns, examId \in Exams : ExamStart(c, examId)
    \/ \E c \in ExamConns, examId \in Exams : ExamEnd(c, examId)
    \/ \E c \in ExamConns : ExamDisconnect(c)
    \/ \E c \in AdminConns, token \in Tokens : AdminConnect(c, token)
    \/ \E c \in AdminConns : AdminDisconnect(c)

Spec == Init /\ [][Next]_vars

\* the /exam namespace with the mobileHandler events: sockets that pair over a
\* session while they join and leave one exam
NextMobile ==
    \/ \E c \in ExamConns, token \in ValidTokens : ExamConnect(c, token)
    \/ \E c \in ExamConns : JoinExam(c, Undefined, "EX1", Undefined)
    \/ \E c \in ExamConns : LeaveExam(c)
    \/ \E c \in ExamConns : ExamDisconnect(c)
    \/ \E c \in ExamConns, sessionId \in Sessions \cup {""} : MobileJoin(c, sessionId)
    \/ \E c \in ExamConns, sessionId \in Sessions \cup {""} : SessionJoin(c, sessionId)
    \/ \E c \in ExamConns, sessionId \in Sessions, examId \in {"EX1", Undefined},
          violation \in Violations : ViolationAlert(c, sessionId, examId, violation)
    \/ \E c \in AdminConns : AdminConnect(c, "jwt-admin-1")
    \/ \E c \in AdminConns : AdminDisconnect(c)

SpecMobile == Init /\ [][NextMobile]_vars

(* ------------------ the inline relay of socket.js --------------------- *)
\* socket.js also holds a relay with the handlers written inline and no
\* handshake middleware: socket.user is never set there.

\* adminNamespace.emit: every open /admin socket
adminEmit(ev, data) == emit({a \in AdminConns : status[a] = "open"}, ev, data)

\* examNamespace.on('connection', ...) without middleware
InlineExamConnect(c) ==
    /\ status[c] = "idle"
    /\ status' = [status EXCEPT ![c] = "open"]
    /\ sent' = {}
    /\ last' = [ev |-> "connection", conn |-> c]
    /\ UNCHANGED <<user, rooms, connections>>
    /\ UNCHANGED httpVars

\* socket.on(JOIN_EXAM, ({ userId, examId, device = 'laptop' }) => ...)
onInlineJoinExam(c, userId, examId, device) ==
    IF Falsy(userId) \/ Falsy(examId)
    THEN [connections |-> connections,
          rooms |-> rooms,
          sent |-> emit({c}, "error", [message |-> "userId and examId are required"]),
          last |-> [ev |-> "exam:join", conn |-> c, examId |-> examId, ok |-> FALSE]]
    ELSE LET dev == IF device = Undefined THEN "laptop" ELSE device
             roomName == roomOfExam(examId)
             conns == addUser(connections, c,
                              [userId |-> userId, role |-> "student",
                               examId |-> examId, device |-> dev])
             joined == [rooms EXCEPT ![c] = @ \cup {roomName}]
             roomUsers == getUsersByExam(conns, examId)
         IN [connections |-> conns,
             rooms |-> joined,
             sent |-> emit({c}, "exam:state",
                           [examId |-> examId, users |-> rosterOf(roomUsers),
                            message |-> "Joined exam"])
                      \cup emit(socketTo(joined, c, roomName), "exam:user_joined",
                                [userId |-> userId, device |-> dev, examId |-> examId])
                      \cup adminEmit("exam:user_joined",
                                     [userId |-> userId, device |-> dev,
                                      examId |-> examId,
                                      totalInRoom |-> Len(roomUsers)]),
             last |-> [ev |-> "exam:join", conn |-> c, examId |-> examId,
                       device |-> dev, ok |-> TRUE]]

InlineJoinExam(c, userId, examId, device) ==
    /\ status[c] = "open"
    /\ LET e == onInlineJoinExam(c, userId, examId, device) IN
       /\ connections' = e.connections
       /\ rooms' = e.rooms
       /\ sent' = e.sent
       /\ last' = e.last
    /\ UNCHANGED <<status, user>>
    /\ UNCHANGED httpVars

\* handleExamDisconnect(socket, examNamespace), the socket's rooms being rms
handleExamDisconnect(c, rms, ev) ==
    LET r == removeUser(connections, c) IN
    IF r.user = <<>>
    THEN [connections |-> r.conns, rooms |-> rms, sent |-> {},
          last |-> [ev |-> ev, conn |-> c, user |-> r.user]]
    ELSE LET u == r.user[1]
             roomName == roomOfExam(u.examId)
         IN [connections |-> r.conns,
             rooms |-> [rms EXCEPT ![c] = @ \ {roomName}],
             sent |-> emit(socketTo(rms, c, roomName), "exam:user_left",
                           [userId |-> u.userId, device |-> u.device,
                            examId |-> u.examId])
                      \cup adminEmit("exam:user_left",
                                     [userId |-> u.userId, device |-> u.device,
                                      examId |-> u.examId,
                                      remainingInRoom |->
                                          Len(getUsersByExam(r.conns, u.examId))]),
             last |-> [ev |-> ev, conn |-> c, user |-> r.user]]

\* socket.on(LEAVE_EXAM, () => handleExamDisconnect(...))
InlineLeaveExam(c) ==
    /\ status[c] = "open"
    /\ c \in ExamConns
    /\ LET e == handleExamDisconnect(c, rooms, "exam:leave") IN
       /\ connections' = e.connections
       /\ rooms' = e.rooms
       /\ sent' = e.sent
       /\ last' = e.last
    /\ UNCHANGED <<status, user>>
    /\ UNCHANGED httpVars

\* socket.on('disconnect', ...) of an /exam socket, out of its rooms already
InlineExamDisconnect(c) ==
    /\ status[c] = "open"
    /\ c \in ExamConns
    /\ status' = [status EXCEPT ![c] = "closed"]
    /\ LET e == handleExamDisconnect(c, [rooms EXCEPT ![c] = {}], "disconnect") IN
       /\ connections' = e.connections
       /\ rooms' = e.rooms
       /\ sent' = e.sent
       /\ last' = e.last
    /\ UNCHANGED user
    /\ UNCHANGED httpVars

\* adminNamespace.on('connection', ...) without middleware
InlineAdminConnect(c) ==
    /\ status[c] = "idle"
    /\ c \in AdminConns
    /\ LET conns == addUser(connections, c,
                            [userId |-> "admin-" \o ToString(c), role |-> "admin",
                             examId |-> Undefined, device |-> Undefined])
       IN /\ connections' = conns
          /\ sent' = emit({c}, "exam:state",
                          [stats |-> getStats(conns), message |-> "Admin connected"])
    /\ status' = [status EXCEPT ![c] = "open"]
    /\ last' = [ev |-> "connection", conn |-> c]
    /\ UNCHANGED <<user, rooms>>
    /\ UNCHANGED httpVars

\* socket.on('disconnect', ...) of an /admin socket
InlineAdminDisconnect(c) ==
    /\ status[c] = "open"
    /\ c \in AdminConns
    /\ LET r == removeUser(connections, c) IN
       /\ connections' = r.conns
       /\ last' = [ev |-> "disconnect", conn |-> c, user |-> r.user]
    /\ status' = [status EXCEPT ![c] = "closed"]
    /\ sent' = {}
    /\ UNCHANGED <<user, rooms>>
    /\ UNCHANGED httpVars

NextInline ==
    \/ \E c \in ExamConns : InlineExamConnect(c)
    \/ \E c \in ExamConns, userId \in UserIds \cup {Undefined},
          examId \in Exams \cup {Undefined} :
          InlineJoinExam(c, userId, examId, Undefined)
    \/ \E c \in ExamConns : InlineLeaveExam(c)
    \/ \E c \in ExamConns : InlineExamDisconnect(c)
    \/ \E c \in AdminConns : InlineAdminConnect(c)
    \/ \E c \in AdminConns : InlineAdminDisconnect(c)

SpecInline == Init /\ [][NextInline]_vars

(* --------------------------- exam routes ------------------------------ *)
\* Each route handler is async: it runs from one await to the next without
\* interruption, and handlers of other requests run in between.  A request is
\* one slot of reqs; its doc is the Exam document its findOne/findById read.
\* The admin routes are called by the exam's creator (authenticate,
\* authorize('admin') and the createdBy filter let nobody else through).

inSeq(q, x) == \E i \in 1..Len(q) : q[i] = x

\* request ids are given out in arrival order
canStart(r) ==
    /\ reqs[r].pc = "idle"
    /\ \A q \in ReqIds : q < r => reqs[q].pc # "idle"

started(r, kind, who) ==
    [IdleReq EXCEPT !.kind = kind, !.user = who, !.doc = exam]

done(rq, code) == [rq EXCEPT !.pc = "done", !.res = code]

\* PUT /:id up to `await exam.save()`; seats is req.body.maxStudents (0: absent)
PutFind(r, seats) ==
    /\ canStart(r)
    /\ LET rq == [started(r, "put", "admin") EXCEPT !.seats = seats] IN
       reqs' = [reqs EXCEPT ![r] =
                   IF rq.doc.status # "draft" /\ rq.doc.status # "scheduled"
                   THEN done(rq, 400)
                   ELSE [rq EXCEPT !.pc = "saving"]]
    /\ UNCHANGED <<exam, submissions>>
    /\ UNCHANGED relayVars

\* exam.save() of PUT /:id: the paths the handler changed are written
PutSave(r) ==
    /\ reqs[r].pc = "saving" /\ reqs[r].kind = "put"
    /\ exam' = [exam EXCEPT
                   !.maxStudents = IF reqs[r].seats # 0
                                      /\ reqs[r].seats # reqs[r].doc.maxStudents
                                   THEN reqs[r].seats ELSE @,
                   !.status = IF reqs[r].doc.status = "draft" THEN "scheduled" ELSE @]
    /\ reqs' = [reqs EXCEPT ![r] = done(@, 200)]
    /\ UNCHANGED submissions
    /\ UNCHANGED relayVars

\* validTransitions of the PATCH /:id/status handler that is registered second
validTransitions(from) ==
    CASE from = "draft" -> {"scheduled"}
      [] from = "scheduled" -> {"live", "draft"}
      [] from = "live" -> {"completed"}
      [] OTHER -> {}

\* the second PATCH /:id/status handler's test of the requested status
statusAllowedChecked(from, to) == to \in validTransitions(from)

\* the first PATCH /:id/status handler's test: validStatuses.includes(status).
\* Express calls the handlers of a path in registration order and this one
\* always answers, so the second handler never runs.
statusAllowed(from, to) == to \in Statuses

\* PATCH /:id/status up to `await exam.save()`
StatusFind(r, to) ==
    /\ canStart(r)
    /\ LET rq == [started(r, "status", "admin") EXCEPT !.status = to] IN
       reqs' = [reqs EXCEPT ![r] =
                   IF ~statusAllowed(rq.doc.status, to)
                   THEN done(rq, 400)
                   ELSE [rq EXCEPT !.pc = "saving"]]
    /\ UNCHANGED <<exam, submissions>>
    /\ UNCHANGED relayVars

\* exam.save() of PATCH /:id/status
StatusSave(r) ==
    /\ reqs[r].pc = "saving" /\ reqs[r].kind = "status"
    /\ exam' = [exam EXCEPT
                   !.status = IF reqs[r].status # reqs[r].doc.status
                              THEN reqs[r].status ELSE @]
    /\ reqs' = [reqs EXCEPT ![r] = done(@, 200)]
    /\ UNCHANGED submissions
    /\ UNCHANGED relayVars

\* POST /join: exam.participants.length >= exam.maxStudents rejects
seatsLeft(doc) == Len(doc.participants) < doc.maxStudents

\* POST /join up to `await exam.save()`
JoinFind(r, u) ==
    /\ canStart(r)
    /\ LET rq == started(r, "join", u) IN
       reqs' = [reqs EXCEPT ![r] =
                   IF rq.doc.status # "scheduled" /\ rq.doc.status # "live"
                   THEN done(rq, 400)
                   ELSE IF ~seatsLeft(rq.doc)
                   THEN done(rq, 400)
                   ELSE IF inSeq(rq.doc.participants, u)
                   THEN done(rq, 200)
                   ELSE [rq EXCEPT !.pc = "saving"]]
    /\ UNCHANGED <<exam, submissions>>
    /\ UNCHANGED relayVars

\* exam.save() of POST /join: the pushed id is added to the stored array
JoinSave(r) ==
    /\ reqs[r].pc = "saving" /\ reqs[r].kind = "join"
    /\ exam' = [exam EXCEPT !.participants = Append(@, reqs[r].user)]
    /\ reqs' = [reqs EXCEPT ![r] = done(@, 200)]
    /\ UNCHANGED submissions
    /\ UNCHANGED relayVars

\* GET /:id/questions up to `await exam.save()`; timeReached is now >= startTime
QuestionsFind(r, u, timeReached) ==
    /\ canStart(r)
    /\ LET rq == started(r, "questions", u)
           isLive == rq.doc.status = "live"
           isAutoStart == rq.doc.status = "scheduled" /\ timeReached
       IN reqs' = [reqs EXCEPT ![r] =
                      IF ~inSeq(rq.doc.participants, u) THEN done(rq, 403)
                      ELSE IF ~isLive /\ ~isAutoStart THEN done(rq, 400)
                      ELSE IF isAutoStart THEN [rq EXCEPT !.pc = "saving"]
                      ELSE done(rq, 200)]
    /\ UNCHANGED <<exam, submissions>>
    /\ UNCHANGED relayVars

\* exam.save() of GET /:id/questions: the lazy scheduled -> live
QuestionsSave(r) ==
    /\ reqs[r].pc = "saving" /\ reqs[r].kind = "questions"
    /\ exam' = [exam EXCEPT !.status = "live"]
    /\ reqs' = [reqs EXCEPT ![r] = done(@, 200)]
    /\ UNCHANGED submissions
    /\ UNCHANGED relayVars

\* the score of the one-question exam under the default marking scheme
scoreOf(answer) == IF answer = "right" THEN 4 ELSE -1

hasSubmission(subs, u) == \E i \in 1..Len(subs) : subs[i].student = u

\* a Submission.create on a collection without the unique index
createSubmissionNoIndex(subs, u, answer) ==
    [ok |-> TRUE, subs |-> Append(subs, [student |-> u, score |-> scoreOf(answer)])]

\* Submission.create: the unique index on (exam, student) makes the insert of
\* a second document for the pair fail
createSubmission(subs, u, answer) ==
    IF hasSubmission(subs, u)
    THEN [ok |-> FALSE, subs |-> subs]
    ELSE [ok |-> TRUE, subs |-> Append(subs, [student |-> u, score |-> scoreOf(answer)])]

\* POST /:id/submit up to `await Submission.findOne(...)`
SubmitFind(r, u, answer) ==
    /\ canStart(r)
    /\ LET rq == [started(r, "submit", u) EXCEPT !.answer = answer] IN
       reqs' = [reqs EXCEPT ![r] =
                   IF ~inSeq(rq.doc.participants, u) THEN done(rq, 403)
                   ELSE IF rq.doc.status # "live" THEN done(rq, 400)
                   ELSE [rq EXCEPT !.pc = "checking"]]
    /\ UNCHANGED <<exam, submissions>>
    /\ UNCHANGED relayVars

\* Submission.findOne resolves: the already-submitted check
SubmitCheck(r) ==
    /\ reqs[r].pc = "checking" /\ reqs[r].kind = "submit"
    /\ reqs' = [reqs EXCEPT ![r] =
                   IF hasSubmission(submissions, reqs[r].user)
                   THEN done(@, 400)
                   ELSE [@ EXCEPT !.pc = "creating"]]
    /\ UNCHANGED <<exam, submissions>>
    /\ UNCHANGED relayVars

\* Submission.create resolves or throws (caught: 500)
SubmitCreate(r) ==
    /\ reqs[r].pc = "creating" /\ reqs[r].kind = "submit"
    /\ LET c == createSubmission(submissions, reqs[r].user, reqs[r].answer) IN
       /\ submissions' = c.subs
       /\ reqs' = [reqs EXCEPT ![r] = done(@, IF c.ok THEN 200 ELSE 500)]
    /\ UNCHANGED exam
    /\ UNCHANGED relayVars

InitExams ==
    /\ InitRelay
    /\ exam \in {d \in ExamDocs : Len(d.participants) <= d.maxStudents}
    /\ submissions = <<>>
    /\ reqs = [r \in ReqIds |-> IdleReq]

NextExams ==
    \/ \E r \in ReqIds, seats \in 0..MaxSeats : PutFind(r, seats)
    \/ \E r \in ReqIds : PutSave(r)
    \/ \E r \in ReqIds, to \in Statuses \cup {"archived"} : StatusFind(r, to)
    \/ \E r \in ReqIds : StatusSave(r)
    \/ \E r \in ReqIds, u \in Students : JoinFind(r, u)
    \/ \E r \in ReqIds : JoinSave(r)
    \/ \E r \in ReqIds, u \in Students, timeReached \in BOOLEAN :
          QuestionsFind(r, u, timeReached)
    \/ \E r \in ReqIds : QuestionsSave(r)
    \/ \E r \in ReqIds, u \in Students, answer \in Answers : SubmitFind(r, u, answer)
    \/ \E r \in ReqIds : SubmitCheck(r)
    \/ \E r \in ReqIds : SubmitCreate(r)

SpecExams == InitExams /\ [][NextExams]_vars

(* ------------------------------ properties ---------------------------- *)
hasRecord(c) == MapHas(connections, c)
recordOf(c) == MapGet(connections, c)
JoinedOk == last.ev = "exam:join" /\ last.ok
RemoveEvents == {"exam:leave", "disconnect"}
recipients(ev) == {m.to : m \in {x \in sent : x.ev = ev}}

\* C1: a socket is in the multicast room exam:X exactly when its registry
\* record has examId = X.
C1_RoomMatchesRegistry ==
    \A c \in Conns, X \in Exams :
        (roomOfExam(X) \in rooms[c]) <=> (hasRecord(c) /\ recordOf(c).examId = X)

\* C2 as stated: the registry holds a record for c exactly when c is open.
C2_RecordIffOpen ==
    \A c \in Conns : hasRecord(c) <=> status[c] = "open"

\* C2 as amended: a record exists only for an open connection, and every open
\* /admin connection has one (an open /exam connection may have none).
C2_RecordOnlyWhileOpen ==
    \A c \in Conns :
        /\ hasRecord(c) => status[c] = "open"
        /\ (c \in AdminConns /\ status[c] = "open") => hasRecord(c)

\* an /exam socket is open with no record after its leave-exam, the /admin
\* socket is open, and a socket has disconnected
C2_Witness ==
    /\ last.ev = "exam:leave" /\ last.user # <<>>
    /\ status[last.conn] = "open" /\ ~hasRecord(last.conn)
    /\ \E a \in AdminConns : status[a] = "open" /\ hasRecord(a)
    /\ \E d \in ExamConns : status[d] = "closed"

\* C3: stats() gives the number of registered ids, of student records, of
\* admin records and of distinct non-null exam ids of the live registry.
C3_StatsMatchRegistry ==
    LET idx == 1..Len(connections) IN
    getStats(connections) =
        [total |-> Cardinality(MapKeys(connections)),
         students |-> Cardinality({i \in idx : connections[i].role = "student"}),
         admins |-> Cardinality({i \in idx : connections[i].role = "admin"}),
         activeExams |-> Cardinality({connections[i].examId : i \in idx} \ {Null})]

\* two records share an exam while a third has none
C3_Witness ==
    /\ Len(connections) = 3
    /\ getStats(connections).activeExams = 1
    /\ getStats(connections).students >= 1
    /\ getStats(connections).admins >= 1

\* the exam ids represented in the registry
examsOf(m) == {m[i].examId : i \in 1..Len(m)} \ {Null}

RECURSIVE sumByExam(_, _)
sumByExam(m, exams) ==
    IF exams = {} THEN 0
    ELSE LET e == CHOOSE x \in exams : TRUE
         IN Len(getUsersByExam(m, e)) + sumByExam(m, exams \ {e})

\* C4 as stated: stats().total is the sum over the distinct exams of the size
\* of getByExam plus the number of admin-role records.
C4_TotalIsExamsPlusAdmins ==
    getStats(connections).total =
        sumByExam(connections, examsOf(connections)) + getStats(connections).admins

\* C4 as amended: ... plus the number of admin-role records that have no exam.
C4_TotalIsExamsPlusUnassignedAdmins ==
    getStats(connections).total =
        sumByExam(connections, examsOf(connections))
        + Len(SelectSeq(connections, LAMBDA u : u.role = "admin" /\ u.examId = Null))

\* an admin-role record with an exam, a student record and an /admin record
C4_Witness ==
    /\ \E i \in 1..Len(connections) :
          connections[i].role = "admin" /\ connections[i].examId \in Exams
    /\ \E i \in 1..Len(connections) : connections[i].role = "student"
    /\ \E i \in 1..Len(connections) : connections[i].examId = Null

\* C5: a handler's removeUser returns the stored record and deletes it; a second
\* removeUser of the same id right after returns null and changes nothing; the
\* records of the other ids are never touched.
C5_RemoveTwice ==
    [][\A c \in Conns :
          (last'.ev \in RemoveEvents /\ last'.conn = c) =>
              /\ last'.user = getUser(connections, c)
              /\ ~MapHas(connections', c)
              /\ \A d \in Conns \ {c} : getUser(connections', d) = getUser(connections, d)
              /\ (last.ev \in RemoveEvents /\ last.conn = c) =>
                     (last'.user = <<>> /\ connections' = connections)]_vars

\* a socket that joined two exams has left twice: the second removeUser found
\* nothing, and another record is in the registry
C5_Witness ==
    /\ last.ev = "exam:leave" /\ last.user = <<>>
    /\ rooms[last.conn] # {} /\ ~hasRecord(last.conn)
    /\ Len(connections) >= 1

\* C6: at most one record per socket id; addUser on a registered id replaces
\* the record with the new fields, adds no record and leaves the others alone.
C6_OneRecordPerId ==
    [][/\ \A i, j \in 1..Len(connections') :
             connections'[i].socketId = connections'[j].socketId => i = j
       /\ \A c \in ExamConns :
             (last'.ev = "exam:join" /\ last'.ok /\ last'.conn = c
                 /\ MapHas(connections, c)) =>
                 /\ Len(connections') = Len(connections)
                 /\ getUser(connections', c) =
                        <<[socketId |-> c, userId |-> user[c].userId,
                           role |-> user[c].role, examId |-> last'.examId,
                           device |-> last'.device]>>
                 /\ \A d \in Conns \ {c} :
                        getUser(connections', d) = getUser(connections, d)]_vars

\* a socket registered to EX1 has joined EX2: its record was overwritten
C6_Witness ==
    /\ JoinedOk /\ last.examId = "EX2"
    /\ roomOfExam("EX1") \in rooms[last.conn]
    /\ Len(connections) >= 2

\* C7: after a successful join-exam for E the joiner is in getByExam(E) exactly
\* once and the users of its exam-state acknowledgement include its userId.
C7_JoinerInRoster ==
    JoinedOk =>
        LET c == last.conn
            roster == getUsersByExam(connections, last.examId)
        IN /\ Cardinality({i \in 1..Len(roster) : roster[i].socketId = c}) = 1
           /\ \E m \in sent :
                 /\ m.to = c /\ m.ev = "exam:state"
                 /\ \E i \in 1..Len(m.data.users) :
                       m.data.users[i].userId = user[c].userId

\* a repeated join into an exam another socket is registered to
C7_Witness ==
    /\ JoinedOk
    /\ rooms[last.conn] = {roomOfExam("EX1"), roomOfExam("EX2")}
    /\ Len(getUsersByExam(connections, last.examId)) = 2

\* C8: user-joined goes to every other member of room exam:E and never to the
\* joiner.
C8_NoEchoToJoiner ==
    JoinedOk =>
        /\ last.conn \notin recipients("exam:user_joined")
        /\ recipients("exam:user_joined") =
              {d \in Conns \ {last.conn} : roomOfExam(last.examId) \in rooms[d]}

\* the joiner was already in the room (it re-joins EX1 after EX2) and another
\* member is notified
C8_Witness ==
    /\ JoinedOk /\ last.examId = "EX1"
    /\ roomOfExam("EX2") \in rooms[last.conn]
    /\ recipients("exam:user_joined") # {}

\* C9: every successful join-exam for E delivers user-joined to every /admin
\* connection, with totalInRoom = the number of records registered to E.
C9_AdminNotifiedOfJoin ==
    JoinedOk =>
        \A a \in AdminConns :
            status[a] = "open" =>
                \E m \in sent :
                    /\ m.to = a /\ m.ev = "exam:user_joined"
                    /\ m.data.totalInRoom =
                          Len(getUsersByExam(connections, last.examId))

\* C10: when a socket registered to E leaves or disconnects, every /admin
\* connection gets user-left with remainingInRoom = the number of records still
\* registered to E, and getByExam(E) no longer holds the socket.
C10_AdminNotifiedOfLeave ==
    (last.ev \in RemoveEvents /\ last.conn \in ExamConns /\ last.user # <<>>) =>
        LET E == last.user[1].examId
            remaining == getUsersByExam(connections, E)
        IN /\ \A i \in 1..Len(remaining) : remaining[i].socketId # last.conn
           /\ \A a \in AdminConns :
                 status[a] = "open" =>
                     \E m \in sent :
                         /\ m.to = a /\ m.ev = "exam:user_left"
                         /\ m.data.remainingInRoom = Len(remaining)

\* C11: when a socket c registered to E sends leave-exam or disconnects, every
\* other member of room exam:E receives exactly one user-left carrying c's
\* userId, device and E, and c itself receives none.
C11_UserLeftToOthers ==
    (last.ev \in RemoveEvents /\ last.conn \in ExamConns /\ last.user # <<>>) =>
        LET c == last.conn
            u == last.user[1]
            others == {d \in Conns \ {c} : roomOfExam(u.examId) \in rooms[d]}
        IN /\ \A d \in others :
                 {m \in sent : m.to = d /\ m.ev = "exam:user_left"} =
                     {[to |-> d, ev |-> "exam:user_left",
                       data |-> [userId |-> u.userId, device |-> u.device,
                                 examId |-> u.examId]]}
           /\ recipients("exam:user_left") = others
           /\ \A m \in sent : m.to # c

\* a registered socket has left or disconnected while another socket was a
\* member of its exam room
C11_Witness ==
    /\ last.ev \in RemoveEvents /\ last.conn \in ExamConns /\ last.user # <<>>
    /\ \E d \in ExamConns \ {last.conn} :
          roomOfExam(last.user[1].examId) \in rooms[d]
    /\ recipients("exam:user_left") # {}

\* C12: from any state, leave-exam and disconnect of the same /exam socket
\* give the same registry and the same user-left notifications (recipients and
\* payload), and both remove the socket's record.
C12_LeaveEqualsDisconnect ==
    \A c \in ExamConns :
        status[c] = "open" =>
            /\ onLeaveExam(c).connections = onExamDisconnect(c).connections
            /\ onLeaveExam(c).sent = onExamDisconnect(c).sent
            /\ onLeaveExam(c).last.user = onExamDisconnect(c).last.user
            /\ ~MapHas(onLeaveExam(c).connections, c)

\* a leave-exam has notified another member, and that member is registered
\* and would itself notify someone by leaving or by disconnecting
C12_Witness ==
    /\ last.ev = "exam:leave" /\ last.user # <<>> /\ sent # {}
    /\ \E d \in ExamConns \ {last.conn} :
          /\ status[d] = "open" /\ hasRecord(d)
          /\ onExamDisconnect(d).sent # {}

\* C13: cleanup is idempotent.  A leave-exam or disconnect of a socket that has
\* no record (it already left, or never joined) emits nothing and leaves the
\* registry unchanged.  A user-left is emitted only by a step that removes the
\* record of the socket it is about, and a record of an /exam socket appears
\* only by that socket's successful join-exam, so the user-left notifications
\* for a connection never outnumber its successful joins.
C13_CleanupIdempotent ==
    [][/\ \A c \in ExamConns :
             (last'.ev \in RemoveEvents /\ last'.conn = c /\ ~MapHas(connections, c)) =>
                 (sent' = {} /\ connections' = connections)
       /\ (\E m \in sent' : m.ev = "exam:user_left") =>
             /\ last'.ev \in RemoveEvents
             /\ MapHas(connections, last'.conn)
             /\ ~MapHas(connections', last'.conn)
             /\ \A m \in sent' : m.data.userId = MapGet(connections, last'.conn).userId
       /\ \A c \in ExamConns :
             (~MapHas(connections, c) /\ MapHas(connections', c)) =>
                 (last'.ev = "exam:join" /\ last'.ok /\ last'.conn = c)]_vars

\* a socket that joined and left has disconnected: the second cleanup found no
\* record and emitted nothing, while another socket is still registered
C13_Witness ==
    /\ last.ev = "disconnect" /\ last.conn \in ExamConns /\ last.user = <<>>
    /\ sent = {}
    /\ \E d \in ExamConns \ {last.conn} : hasRecord(d)

ControlEvents == {"exam:start", "exam:end"}

\* C14: an exam-start or exam-end from a connection whose verified role is not
\* admin is a silent no-op: nothing is delivered to anyone (no control event,
\* no error to the caller) and the registry and the rooms stay as they were.
C14_NonAdminControlIgnored ==
    /\ (last.ev \in ControlEvents /\ user[last.conn].role # "admin") => sent = {}
    /\ \A c \in ExamConns, E \in Exams :
          (status[c] = "open" /\ user[c].role # "admin") =>
              /\ onExamStart(c, E).sent = {} /\ onExamEnd(c, E).sent = {}
              /\ onExamStart(c, E).connections = connections
              /\ onExamEnd(c, E).connections = connections
              /\ onExamStart(c, E).rooms = rooms /\ onExamEnd(c, E).rooms = rooms

\* a student has sent exam-start for an exam whose room has members
C14_Witness ==
    /\ last.ev = "exam:start" /\ user[last.conn].role = "student"
    /\ inRoom(rooms, roomOfExam(last.examId)) # {}
    /\ Len(connections) >= 1

\* C15: an exam-start or exam-end for E from an admin-role connection reaches
\* every member of room exam:E, the admin itself included when it is a member,
\* and nobody outside the room; the registry is unchanged by it.
C15_ControlToWholeRoom ==
    /\ (last.ev \in ControlEvents /\ user[last.conn].role = "admin") =>
          LET members == {d \in Conns : roomOfExam(last.examId) \in rooms[d]} IN
          /\ sent = {[to |-> d, ev |-> last.ev, data |-> [timestamp |-> Now]] :
                        d \in members}
          /\ last.conn \in members => last.conn \in recipients(last.ev)
    /\ \A c \in ExamConns, E \in Exams :
          status[c] = "open" =>
              /\ onExamStart(c, E).connections = connections
              /\ onExamEnd(c, E).connections = connections

\* an admin that is a member of the room, together with a student, has sent
\* exam-end for it; the /admin socket is outside the room
C15_Witness ==
    /\ last.ev = "exam:end" /\ user[last.conn].role = "admin"
    /\ roomOfExam(last.examId) \in rooms[last.conn]
    /\ Cardinality(recipients("exam:end")) = 2
    /\ Len(connections) >= 2

\* C16: a join-exam without examId sends an error to the sender only and
\* changes nothing else: the registry and the rooms stay as they were and no
\* user-joined or exam-state goes to anyone.
C16_JoinWithoutExamId ==
    /\ (last.ev = "exam:join" /\ Falsy(last.examId)) =>
          sent = {[to |-> last.conn, ev |-> "error",
                   data |-> [message |-> "examId is required"]]}
    /\ \A c \in ExamConns, device \in Devices \cup {Undefined} :
          status[c] = "open" =>
              /\ onJoinExam(c, Undefined, Undefined, device).connections = connections
              /\ onJoinExam(c, Undefined, Undefined, device).rooms = rooms

\* a registered socket has sent a join-exam without examId while another
\* socket shares its exam room
C16_Witness ==
    /\ last.ev = "exam:join" /\ Falsy(last.examId)
    /\ hasRecord(last.conn)
    /\ \E d \in ExamConns \ {last.conn} :
          roomOfExam(recordOf(last.conn).examId) \in rooms[d]

\* C17: the userId kept in the registry and carried by exam-state and
\* user-joined for an /exam connection is the userId of the identity verified
\* at connect time, and two join-exam events of one connection that differ
\* only in a userId put in the payload give the same registry and the same
\* emissions.  Stated for the JOIN_EXAM handler written inline in socket.js.
C17_UserIdFromIdentity ==
    /\ \A i \in 1..Len(connections) :
          connections[i].socketId \in ExamConns =>
              connections[i].userId = user[connections[i].socketId].userId
    /\ JoinedOk =>
          \A m \in sent :
              m.ev = "exam:user_joined" => m.data.userId = user[last.conn].userId
    /\ \A c \in ExamConns, E \in Exams, u1 \in UserIds, u2 \in UserIds :
          status[c] = "open" =>
              /\ onInlineJoinExam(c, u1, E, Undefined).connections =
                     onInlineJoinExam(c, u2, E, Undefined).connections
              /\ onInlineJoinExam(c, u1, E, Undefined).sent =
                     onInlineJoinExam(c, u2, E, Undefined).sent

RejectedTokens == {NoToken, BadToken, ExpiredToken}

C19_AdminGetsStatsOnConnect ==
    (last.ev = "connection" /\ last.conn \in AdminConns) =>
        LET a == last.conn
            idx == 1..Len(connections)
        IN /\ hasRecord(a)
           /\ sent = {[to |-> a, ev |-> "exam:state",
                       data |-> [stats |-> getStats(connections),
                                 message |-> "Admin connected"]]}
           /\ \A m \in sent :
                 /\ m.data.stats.total = Len(connections)
                 /\ m.data.stats.students =
                       Cardinality({i \in idx : connections[i].role = "student"})
                 /\ m.data.stats.admins =
                       Cardinality({i \in idx : connections[i].role = "admin"})
                 /\ m.data.stats.admins >= 1
                 /\ m.data.stats.activeExams =
                       Cardinality({connections[i].examId : i \in idx} \ {Null})

\* the admin connects while two /exam sockets are registered to two exams
C19_Witness ==
    /\ last.ev = "connection" /\ last.conn \in AdminConns
    /\ \E m \in sent : m.data.stats.total = 3 /\ m.data.stats.activeExams = 2

\* C20: a mobile-join with a non-empty sessionId puts the sender in room
\* session:<sessionId> and delivers mobile-connected, carrying the sender's
\* socket id, to the members of that room; no registry record is added,
\* removed or changed.  A mobile-join with an empty sessionId changes nothing
\* and emits nothing.
C20_MobileJoin ==
    /\ (last.ev = "mobile:join" /\ ~Falsy(last.sessionId)) =>
          LET c == last.conn
              room == roomOfSession(last.sessionId)
          IN /\ room \in rooms[c]
             /\ sent = {[to |-> d, ev |-> "mobile:connected",
                         data |-> [deviceId |-> c]] :
                           d \in {x \in Conns : room \in rooms[x]}}
    /\ (last.ev = "mobile:join" /\ Falsy(last.sessionId)) => sent = {}
    /\ \A c \in ExamConns, sid \in Sessions \cup {""} :
          status[c] = "open" =>
              /\ onMobileJoin(c, sid).connections = connections
              /\ onMobileJoin(c, sid).rooms =
                     IF sid = "" THEN rooms
                     ELSE [rooms EXCEPT ![c] = @ \cup {roomOfSession(sid)}]

\* a registered socket has sent mobile-join into a session another socket is
\* already in
C20_Witness ==
    /\ last.ev = "mobile:join" /\ last.sessionId \in Sessions
    /\ Cardinality(recipients("mobile:connected")) = 2
    /\ hasRecord(last.conn)

\* C21: a violation-alert carrying sessionId S is relayed as
\* violation-detected to every other member of room session:S and to nobody
\* outside the rooms it is relayed to (session:S, and monitor:E when it
\* carries examId E); the sender gets a copy only when it is itself a member.
\* The registry is unchanged.
C21_AlertToSessionGroup ==
    /\ last.ev = "violation:alert" =>
          LET c == last.conn
              members == {d \in Conns : roomOfSession(last.sessionId) \in rooms[d]}
              observers == IF Falsy(last.examId) THEN {}
                           ELSE {d \in Conns : roomOfMonitor(last.examId) \in rooms[d]}
          IN /\ members \ {c} \subseteq recipients("violation:detected")
             /\ recipients("violation:detected") \subseteq members \cup observers
             /\ \A m \in sent : m.ev = "violation:detected"
             /\ \A d \in members :
                   \E m \in sent : m.to = d /\ m.data.examId = last.examId
    /\ \A c \in ExamConns, S \in Sessions, E \in Exams \cup {Undefined},
          v \in Violations :
          status[c] = "open" =>
              /\ onViolationAlert(c, S, E, v).connections = connections
              /\ onViolationAlert(c, S, E, v).rooms = rooms

\* a member of session S1 has sent an alert that another member received
\* while a registered socket stays outside S1
C21_Witness ==
    /\ last.ev = "violation:alert" /\ last.sessionId = "S1"
    /\ roomOfSession("S1") \in rooms[last.conn]
    /\ recipients("violation:detected") \ {last.conn} # {}
    /\ \E d \in Conns : hasRecord(d) /\ roomOfSession("S1") \notin rooms[d]

\* C22: a violation-alert that carries examId E also reaches the admin
\* connections observing E, as violation-detected with the sessionId and the
\* sender's userId: an admin connected to the admin channel when the alert is
\* sent receives it.
C22_AlertToAdmins ==
    (last.ev = "violation:alert" /\ ~Falsy(last.examId)) =>
        \A a \in AdminConns :
            status[a] = "open" =>
                \E m \in sent :
                    /\ m.to = a /\ m.ev = "violation:detected"
                    /\ m.data = [sessionId |-> last.sessionId,
                                 userId |-> user[last.conn].userId,
                                 violation |-> m.data.violation,
                                 examId |-> last.examId]

sessionRoomsOf(rs) == rs \cap {roomOfSession(S) : S \in Sessions}
examRoomsOf(rs) == rs \cap {roomOfExam(E) : E \in Exams}

\* C23: session membership is independent of exam membership.  A socket with
\* no record and no exam room can join session:S; join-exam and leave-exam
\* never add or remove a session membership of any socket; mobile-join and
\* session:join never change the registry or an exam-room membership.
C23_SessionIndependentOfExam ==
    /\ (last.ev \in {"session:join", "mobile:join"} /\ ~Falsy(last.sessionId)) =>
          roomOfSession(last.sessionId) \in rooms[last.conn]
    /\ \A c \in ExamConns :
          status[c] = "open" =>
              /\ \A E \in Exams \cup {Undefined}, dev \in Devices \cup {Undefined},
                    d \in Conns :
                    sessionRoomsOf(onJoinExam(c, Undefined, E, dev).rooms[d]) =
                        sessionRoomsOf(rooms[d])
              /\ \A d \in Conns :
                    sessionRoomsOf(onLeaveExam(c).rooms[d]) = sessionRoomsOf(rooms[d])
              /\ \A S \in Sessions \cup {""} :
                    /\ onSessionJoin(c, S).connections = connections
                    /\ onMobileJoin(c, S).connections = connections
                    /\ \A d \in Conns :
                          /\ examRoomsOf(onSessionJoin(c, S).rooms[d]) =
                                 examRoomsOf(rooms[d])
                          /\ examRoomsOf(onMobileJoin(c, S).rooms[d]) =
                                 examRoomsOf(rooms[d])

\* a socket in a session has left its exam and kept the session, while a
\* socket that never joined an exam is in a session too
C23_Witness ==
    /\ last.ev = "exam:leave" /\ last.user # <<>>
    /\ sessionRoomsOf(rooms[last.conn]) # {}
    /\ \E d \in ExamConns \ {last.conn} :
          /\ status[d] = "open" /\ ~hasRecord(d)
          /\ examRoomsOf(rooms[d]) = {} /\ sessionRoomsOf(rooms[d]) # {}

\* C24 as stated: left/disconnected is terminal.  A disconnected socket has no
\* record and no room, and right after a leave-exam that removed c's record no
\* join-exam of c creates a record or a room membership for it again.
C24_LeftIsTerminal ==
    \A c \in ExamConns :
        /\ status[c] = "closed" => (~hasRecord(c) /\ rooms[c] = {})
        /\ (last.ev = "exam:leave" /\ last.conn = c /\ last.user # <<>>) =>
              \A E \in Exams :
                  /\ ~MapHas(onJoinExam(c, Undefined, E, Undefined).connections, c)
                  /\ roomOfExam(E) \notin onJoinExam(c, Undefined, E, Undefined).rooms[c]

\* C24 as amended: only disconnected is terminal.  A closed socket stays closed
\* with no record and no room; a leave-exam leaves the socket open without a
\* record (unjoined again), and every successful join-exam, also one that
\* follows a leave-exam, registers the socket and puts it in the exam room.
C24_DisconnectedIsTerminal ==
    [][\A c \in ExamConns :
          /\ status[c] = "closed" =>
                (status'[c] = "closed" /\ ~MapHas(connections', c) /\ rooms'[c] = {})
          /\ (last'.ev = "exam:leave" /\ last'.conn = c) =>
                (status'[c] = "open" /\ ~MapHas(connections', c))
          /\ (last'.ev = "exam:join" /\ last'.ok /\ last'.conn = c) =>
                (MapHas(connections', c) /\ roomOfExam(last'.examId) \in rooms'[c])]_vars

\* a socket has left its exam and a join-exam would register it again, while
\* another socket has disconnected
C24_Witness ==
    /\ last.ev = "exam:leave" /\ last.user # <<>>
    /\ MapHas(onJoinExam(last.conn, Undefined, "EX1", Undefined).connections, last.conn)
    /\ \E d \in ExamConns \ {last.conn} : status[d] = "closed"

\* C25 as stated: a record is never mutated in place; from its creation to its
\* removal its role, examId and device keep their values whatever its socket
\* sends, further join-exam events included.
C25_RecordNeverMutated ==
    [][\A c \in Conns :
          (MapHas(connections, c) /\ MapHas(connections', c)) =>
              /\ MapGet(connections', c).role = MapGet(connections, c).role
              /\ MapGet(connections', c).examId = MapGet(connections, c).examId
              /\ MapGet(connections', c).device = MapGet(connections, c).device]_vars

\* C25 as amended: while c has a record its role and userId never change, and
\* its examId and device change only by a successful join-exam of c, which
\* overwrites them with the examId and device of that join.
C25_RecordOverwrittenByJoinOnly ==
    [][\A c \in Conns :
          (MapHas(connections, c) /\ MapHas(connections', c)) =>
              /\ MapGet(connections', c).role = MapGet(connections, c).role
              /\ MapGet(connections', c).userId = MapGet(connections, c).userId
              /\ IF last'.ev = "exam:join" /\ last'.ok /\ last'.conn = c
                 THEN /\ MapGet(connections', c).examId = last'.examId
                      /\ MapGet(connections', c).device = last'.device
                 ELSE /\ MapGet(connections', c).examId = MapGet(connections, c).examId
                      /\ MapGet(connections', c).device = MapGet(connections, c).device]_vars

\* a socket that is still in room exam:EX1 has joined EX2 from a mobile
\* device: its record now says EX2 and mobile, next to another record
C25_Witness ==
    /\ JoinedOk /\ last.examId = "EX2" /\ last.device = "mobile"
    /\ roomOfExam("EX1") \in rooms[last.conn]
    /\ recordOf(last.conn).examId = "EX2" /\ recordOf(last.conn).device = "mobile"
    /\ Len(connections) >= 2

\* the records registered to exam E, in registry order, as a roster
recordsOfExam(m, E) ==
    LET reg == SelectSeq(m, LAMBDA u : u.examId = E)
    IN [i \in 1..Len(reg) |-> [userId |-> reg[i].userId, device |-> reg[i].device]]

\* C26: handlers are atomic across connections.  Whatever the interleaving of
\* join-exam, leave-exam and disconnect of different sockets, the roster of an
\* exam-state acknowledgement is exactly the records registered to that exam
\* when the join is handled, joiner included; a join of a socket not yet
\* registered to E reports one more than the records E had, so the k-th of k
\* distinct joiners with no departure reports a roster of size k.
C26_RosterIsRegistrySnapshot ==
    /\ JoinedOk =>
          \A m \in sent :
              m.ev = "exam:state" =>
                  m.data.users = recordsOfExam(connections, last.examId)
    /\ \A c \in ExamConns, E \in Exams :
          status[c] = "open" =>
              LET before == Cardinality({i \in 1..Len(connections) :
                                            connections[i].examId = E})
                  own == IF hasRecord(c) /\ recordOf(c).examId = E THEN 1 ELSE 0
              IN \A m \in onJoinExam(c, Undefined, E, Undefined).sent :
                     m.ev = "exam:state" => Len(m.data.users) = before - own + 1

\* the second of two sockets joins EX2 as its first exam and is told of two
\* users
C26_Witness ==
    /\ JoinedOk /\ last.examId = "EX2"
    /\ rooms[last.conn] = {roomOfExam("EX2")}
    /\ \E m \in sent : m.ev = "exam:state" /\ Len(m.data.users) = 2

\* C27 as stated: violation-detected reaches the members of session:S only
\* through a violation-alert of a socket that is itself a member of session:S.
C27_AlertOnlyFromMembers ==
    (\E m \in sent : m.ev = "violation:detected") =>
        /\ last.ev = "violation:alert"
        /\ roomOfSession(last.sessionId) \in rooms[last.conn]

\* C27 as amended: violation-detected reaches a socket only through a
\* violation-alert that names a session the recipient is a member of, and such
\* an alert reaches every member of that session whether or not its sender is
\* a member.
C27_AlertFromAnySender ==
    /\ (\E m \in sent : m.ev = "violation:detected") => last.ev = "violation:alert"
    /\ last.ev = "violation:alert" =>
          recipients("violation:detected") =
              {d \in Conns : roomOfSession(last.sessionId) \in rooms[d]}

\* a socket that is in no session has sent an alert into S1, and a member of
\* S1 received it
C27_Witness ==
    /\ last.ev = "violation:alert" /\ last.sessionId = "S1"
    /\ sessionRoomsOf(rooms[last.conn]) = {}
    /\ recipients("violation:detected") # {}

\* C28: an exam's status changes only along draft->scheduled,
\* scheduled->live, scheduled->draft and live->completed; a request for any
\* other pair leaves the status as it is, and a completed exam never changes
\* status again.
C28_StatusLifecycle ==
    [][exam'.status # exam.status =>
          exam'.status \in validTransitions(exam.status)]_vars

\* C29: in every reachable state an exam has at most maxStudents participants,
\* also when joins of different students are handled concurrently and when
\* the admin edits maxStudents of a scheduled exam that has participants.
C29_ParticipantsWithinSeats ==
    Len(exam.participants) <= exam.maxStudents

acceptedSubmits == {r \in ReqIds : reqs[r].kind = "submit" /\ reqs[r].res = 200}

\* C30: at most one submission is stored per (exam, student), whatever the
\* interleaving of submit requests of one student; a submission is stored
\* only for a submitter who is a participant of the exam document the handler
\* read, with status live in that document; a rejected submit stores nothing
\* and leaves the stored submission and its score as they were.
C30_OneSubmissionPerStudent ==
    /\ \A i, j \in 1..Len(submissions) :
          submissions[i].student = submissions[j].student => i = j
    /\ Len(submissions) = Cardinality(acceptedSubmits)
    /\ \A r \in acceptedSubmits :
          /\ reqs[r].doc.status = "live"
          /\ inSeq(reqs[r].doc.participants, reqs[r].user)
          /\ \E i \in 1..Len(submissions) :
                submissions[i] = [student |-> reqs[r].user,
                                  score |-> scoreOf(reqs[r].answer)]

\* two submits of one student both passed the already-submitted check: one
\* was stored with its score, the other failed on the unique index
C30_Witness ==
    /\ Len(submissions) = 1
    /\ \E r \in ReqIds : reqs[r].kind = "submit" /\ reqs[r].res = 500
    /\ \E r \in acceptedSubmits : reqs[r].answer = "right"

====
